---------------------------- MODULE Spec2Model ----------------------------
(***************************************************************************)
(* Half-edge connectivity store of tri-mesh                                *)
(* (src/src/mesh/connectivity_info.rs): the three IDMap arenas (vertices,  *)
(* half-edges, faces) with their free lists, and the operations of         *)
(* ConnectivityInfo that allocate, wire and remove records; and the        *)
(* MeshBuilder of src/src/mesh_builder.rs.                                 *)
(*                                                                         *)
(* Handles are 0-based indices as in the code; TLA+ sequences are 1-based, *)
(* so slot i of an arena is values[i + 1].  Option<T> is a sequence of     *)
(* length 0 (None) or 1 (Some(x)).                                         *)
(***************************************************************************)
EXTENDS Integers, Sequences, FiniteSets

\* Bounds of the model: caps on the three backing arrays and on the number
\* of calls of a run.
MaxVertices == 3
MaxHalfedges == 6
MaxFaces == 2
MaxCalls == 6
MaxBuildCalls == 5
MaxLookupCalls == 4
MaxBuilderCalls == 3
MaxSubdivisions == 2

\* Vec3 and the face tag T are opaque to the store.
Positions == {"p", "q"}
Tags == {"t", "u"}

VARIABLES
    vertices,   \* IDMap<VertexID, Vertex>:     [values, free]
    halfedges,  \* IDMap<HalfEdgeID, HalfEdge>: [values, free]
    faces,      \* IDMap<FaceID, Face<T>>:      [values, free]
    panicked,   \* TRUE once an unwrap() or an index has failed
    net,        \* history: per arena, inserts performed minus removes performed
    alive,      \* history: the vertex handles returned by new_vertex and not
                \* passed to remove_vertex since
    last,       \* history: the last call, its arguments, what it returned,
                \* and the record new_halfedge found in the slot it reused
    calls,      \* history: the number of calls made
    builder,    \* MeshBuilder: [indices, positions], each an Option<Vec>
    result,     \* what build() returned, None while it has not been called
    supplied,   \* history: a builder call has supplied positions
    cursor      \* the iterator vertex_iterator() returned last, what it has
                \* yielded, and (history) the arena's live handles at the call

vars == <<vertices, halfedges, faces, panicked, net, alive, last, calls,
          builder, result, supplied, cursor>>

---------------------------------------------------------------------------
\* Option<T>
None == <<>>
Some(x) == <<x>>
is_some(o) == o # <<>>
unwrap(o) == o[1]

\* The records.
Vertex(halfedge, position) == [halfedge |-> halfedge, position |-> position]
HalfEdge(vertex, twin, next, face) ==
    [vertex |-> vertex, twin |-> twin, next |-> next, face |-> face]
Face(halfedge, tag) == [halfedge |-> halfedge, tag |-> tag]

---------------------------------------------------------------------------
\* IDMap<K, V>: values is the backing Vec<V>, free the Vec<K> of freed ids.
with_capacity == [values |-> <<>>, free |-> <<>>]

\* Mutant of insert_new: the oldest freed id is reused, not the newest.
insert_new_fifo(m, value) ==
    IF m.free # <<>>
    THEN LET i == m.free[1]
             popped == Tail(m.free)
         IN  IF i < Len(m.values)
             THEN [map |-> [values |-> [m.values EXCEPT ![i + 1] = value],
                            free |-> popped],
                   id |-> i, panicked |-> FALSE]
             ELSE [map |-> [values |-> m.values, free |-> popped],
                   id |-> i, panicked |-> TRUE]
    ELSE [map |-> [values |-> Append(m.values, value), free |-> m.free],
          id |-> Len(m.values), panicked |-> FALSE]

\* insert_new: pop the last freed id and overwrite its slot, else push.
\* values[i] panics when the popped id is not below values.len().
insert_new(m, value) ==
    IF m.free # <<>>
    THEN LET i == m.free[Len(m.free)]
             popped == SubSeq(m.free, 1, Len(m.free) - 1)
         IN  IF i < Len(m.values)
             THEN [map |-> [values |-> [m.values EXCEPT ![i + 1] = value],
                            free |-> popped],
                   id |-> i, panicked |-> FALSE]
             ELSE [map |-> [values |-> m.values, free |-> popped],
                   id |-> i, panicked |-> TRUE]
    ELSE [map |-> [values |-> Append(m.values, value), free |-> m.free],
          id |-> Len(m.values), panicked |-> FALSE]

\* Mutant of remove: the id is pushed twice.
remove_pushes_twice(m, id) ==
    [values |-> m.values, free |-> Append(Append(m.free, id), id)]

\* remove: push the id on the free list, whatever the id is.
remove(m, id) == [values |-> m.values, free |-> Append(m.free, id)]

\* len: values.len() - free.len() in usize; the subtraction overflows when
\* the free list is the longer one (a panic in a debug build, a wrapped
\* value near 2^64 in a release build).
len_overflows(m) == Len(m.free) > Len(m.values)
len(m) == Len(m.values) - Len(m.free)

\* Mutant of get: a slot whose id is on the free list is not returned.
get_live(m, id) ==
    IF id < Len(m.values) /\ \A k \in 1 .. Len(m.free) : m.free[k] # id
    THEN Some(m.values[id + 1]) ELSE None

\* get / get_mut: Some(slot) when the index is below values.len().
get(m, id) == IF id < Len(m.values) THEN Some(m.values[id + 1]) ELSE None

\* Mutant of iter: the free list is not consulted.
iter_unfiltered(m) == [k \in 1 .. Len(m.values) |-> k - 1]

\* iter: the ids 0 .. values.len()-1 in ascending order, those of the free
\* list filtered out.
RECURSIVE iter_from(_, _)
iter_from(m, i) ==
    IF i >= Len(m.values) THEN <<>>
    ELSE (IF \E k \in 1 .. Len(m.free) : m.free[k] = i THEN <<>> ELSE <<i>>)
         \o iter_from(m, i + 1)
iter(m) == iter_from(m, 0)

\* The iterator iter returns, before any item is taken from it: the range
\* 0 .. values.len() and the set the free list was collected into, both
\* owned by the iterator.
iter_begin(m) ==
    [next |-> 0, end |-> Len(m.values),
     free |-> {m.free[k] : k \in 1 .. Len(m.free)}]

\* Mutant of iterator_next: the filter is not applied.
iterator_next_unfiltered(it) ==
    IF it.next < it.end
    THEN [it |-> [it EXCEPT !.next = it.next + 1], item |-> Some(it.next)]
    ELSE [it |-> it, item |-> None]

\* Iterator::next on it: the range is advanced to its first id that is not
\* in the collected set, which is the item; None when the range runs out.
iterator_next(it) ==
    LET rest == {i \in it.next .. it.end - 1 : i \notin it.free}
    IN  IF rest = {} THEN [it |-> [it EXCEPT !.next = it.end], item |-> None]
        ELSE LET i == CHOOSE i \in rest : \A j \in rest : i <= j
             IN  [it |-> [it EXCEPT !.next = i + 1], item |-> Some(i)]

---------------------------------------------------------------------------
\* ConnectivityInfo as a value: the three arenas and whether a call panicked.
\* Every operation maps a store to a store; a panicked store is left as the
\* panic found it.
Store == [vertices |-> vertices, halfedges |-> halfedges, faces |-> faces,
          panicked |-> panicked]

new == [vertices |-> with_capacity, halfedges |-> with_capacity,
        faces |-> with_capacity, panicked |-> FALSE]

num_vertices(s) == len(s.vertices)
num_halfedges(s) == len(s.halfedges)
num_faces(s) == len(s.faces)

new_vertex(s, position) ==
    IF s.panicked THEN [s |-> s, id |-> 0]
    ELSE LET r == insert_new(s.vertices, Vertex(None, position))
         IN  [s |-> [s EXCEPT !.vertices = r.map, !.panicked = r.panicked],
              id |-> r.id]

\* Mutant of new_halfedge: a reused slot keeps the twin it held.
new_halfedge_keeps_twin(s, vertex, next, face) ==
    IF s.panicked THEN [s |-> s, id |-> 0]
    ELSE LET r == insert_new(s.halfedges, HalfEdge(vertex, None, next, face))
             old == get(s.halfedges, r.id)
             map == IF r.panicked \/ old = None THEN r.map
                    ELSE [r.map EXCEPT !.values[r.id + 1].twin = unwrap(old).twin]
         IN  [s |-> [s EXCEPT !.halfedges = map, !.panicked = r.panicked],
              id |-> r.id]

new_halfedge(s, vertex, next, face) ==
    IF s.panicked THEN [s |-> s, id |-> 0]
    ELSE LET r == insert_new(s.halfedges, HalfEdge(vertex, None, next, face))
         IN  [s |-> [s EXCEPT !.halfedges = r.map, !.panicked = r.panicked],
              id |-> r.id]

new_face(s, tag) ==
    IF s.panicked THEN [s |-> s, id |-> 0]
    ELSE LET r == insert_new(s.faces, Face(None, tag))
         IN  [s |-> [s EXCEPT !.faces = r.map, !.panicked = r.panicked],
              id |-> r.id]

\* The setters: get_mut(id).unwrap().field = val.
set_vertex_halfedge(s, id, val) ==
    IF s.panicked THEN s
    ELSE IF get(s.vertices, id) = None THEN [s EXCEPT !.panicked = TRUE]
    ELSE [s EXCEPT !.vertices.values[id + 1].halfedge = val]

set_halfedge_next(s, id, val) ==
    IF s.panicked THEN s
    ELSE IF get(s.halfedges, id) = None THEN [s EXCEPT !.panicked = TRUE]
    ELSE [s EXCEPT !.halfedges.values[id + 1].next = val]

set_twin_field(s, id, val) ==
    IF s.panicked THEN s
    ELSE IF get(s.halfedges, id) = None THEN [s EXCEPT !.panicked = TRUE]
    ELSE [s EXCEPT !.halfedges.values[id + 1].twin = val]

\* Mutant of set_halfedge_twin: only id1's twin is written.
set_halfedge_twin_one_sided(s, id1, id2) ==
    set_twin_field(s, id1, Some(id2))

\* Mutant of set_halfedge_twin: the second write stores id2 instead of id1.
set_halfedge_twin_same_id(s, id1, id2) ==
    set_twin_field(set_twin_field(s, id1, Some(id2)), id2, Some(id2))

set_halfedge_twin(s, id1, id2) ==
    set_twin_field(set_twin_field(s, id1, Some(id2)), id2, Some(id1))

set_halfedge_vertex(s, id, val) ==
    IF s.panicked THEN s
    ELSE IF get(s.halfedges, id) = None THEN [s EXCEPT !.panicked = TRUE]
    ELSE [s EXCEPT !.halfedges.values[id + 1].vertex = Some(val)]

\* Mutant of set_halfedge_face: a handle beyond the array is ignored.
set_halfedge_face_lenient(s, id, val) ==
    IF s.panicked THEN s
    ELSE IF get(s.halfedges, id) = None THEN s
    ELSE [s EXCEPT !.halfedges.values[id + 1].face = val]

set_halfedge_face(s, id, val) ==
    IF s.panicked THEN s
    ELSE IF get(s.halfedges, id) = None THEN [s EXCEPT !.panicked = TRUE]
    ELSE [s EXCEPT !.halfedges.values[id + 1].face = val]

set_face_halfedge(s, id, val) ==
    IF s.panicked THEN s
    ELSE IF get(s.faces, id) = None THEN [s EXCEPT !.panicked = TRUE]
    ELSE [s EXCEPT !.faces.values[id + 1].halfedge = Some(val)]

\* Mutant of create_face: the cycle is left open (halfedge1.next stays None).
create_face_open_cycle(s, vertex_id1, vertex_id2, vertex_id3, tag) ==
    LET f  == new_face(s, tag)
        h1 == new_halfedge(f.s, Some(vertex_id2), None, Some(f.id))
        h3 == new_halfedge(h1.s, Some(vertex_id1), Some(h1.id), Some(f.id))
        h2 == new_halfedge(h3.s, Some(vertex_id3), Some(h3.id), Some(f.id))
        s2 == set_vertex_halfedge(h2.s, vertex_id1, Some(h1.id))
        s3 == set_vertex_halfedge(s2, vertex_id2, Some(h2.id))
        s4 == set_vertex_halfedge(s3, vertex_id3, Some(h3.id))
        s5 == set_face_halfedge(s4, f.id, h1.id)
    IN  [s |-> s5, id |-> f.id]

\* Mutant of create_face: the face's seed is halfedge2, not halfedge1.
create_face_seed_second(s, vertex_id1, vertex_id2, vertex_id3, tag) ==
    LET f  == new_face(s, tag)
        h1 == new_halfedge(f.s, Some(vertex_id2), None, Some(f.id))
        h3 == new_halfedge(h1.s, Some(vertex_id1), Some(h1.id), Some(f.id))
        h2 == new_halfedge(h3.s, Some(vertex_id3), Some(h3.id), Some(f.id))
        s1 == set_halfedge_next(h2.s, h1.id, Some(h2.id))
        s2 == set_vertex_halfedge(s1, vertex_id1, Some(h1.id))
        s3 == set_vertex_halfedge(s2, vertex_id2, Some(h2.id))
        s4 == set_vertex_halfedge(s3, vertex_id3, Some(h3.id))
        s5 == set_face_halfedge(s4, f.id, h2.id)
    IN  [s |-> s5, id |-> f.id]

\* create_face: one face, three half-edges he1(->v2), he3(->v1), he2(->v3)
\* in this order of allocation, then the wiring.
create_face(s, vertex_id1, vertex_id2, vertex_id3, tag) ==
    LET f  == new_face(s, tag)
        h1 == new_halfedge(f.s, Some(vertex_id2), None, Some(f.id))
        h3 == new_halfedge(h1.s, Some(vertex_id1), Some(h1.id), Some(f.id))
        h2 == new_halfedge(h3.s, Some(vertex_id3), Some(h3.id), Some(f.id))
        s1 == set_halfedge_next(h2.s, h1.id, Some(h2.id))
        s2 == set_vertex_halfedge(s1, vertex_id1, Some(h1.id))
        s3 == set_vertex_halfedge(s2, vertex_id2, Some(h2.id))
        s4 == set_vertex_halfedge(s3, vertex_id3, Some(h3.id))
        s5 == set_face_halfedge(s4, f.id, h1.id)
    IN  [s |-> s5, id |-> f.id]

\* Mutant of create_face_with_existing_halfedge: the existing half-edge is
\* rewired but not given the new face.
create_face_with_existing_halfedge_no_face(s, vertex_id1, vertex_id2, vertex_id3, halfedge_id, tag) ==
    LET f  == new_face(s, tag)
        h3 == new_halfedge(f.s, Some(vertex_id1), Some(halfedge_id), Some(f.id))
        h2 == new_halfedge(h3.s, Some(vertex_id3), Some(h3.id), Some(f.id))
        s1 == set_halfedge_next(h2.s, halfedge_id, Some(h2.id))
        s3 == set_vertex_halfedge(s1, vertex_id1, Some(halfedge_id))
        s4 == set_vertex_halfedge(s3, vertex_id2, Some(h2.id))
        s5 == set_vertex_halfedge(s4, vertex_id3, Some(h3.id))
        s6 == set_face_halfedge(s5, f.id, halfedge_id)
    IN  [s |-> s6, id |-> f.id]

\* Mutant of create_face_with_existing_halfedge: the two new half-edges get
\* each other's vertex.
create_face_with_existing_halfedge_swapped(s, vertex_id1, vertex_id2, vertex_id3, halfedge_id, tag) ==
    LET f  == new_face(s, tag)
        h3 == new_halfedge(f.s, Some(vertex_id3), Some(halfedge_id), Some(f.id))
        h2 == new_halfedge(h3.s, Some(vertex_id1), Some(h3.id), Some(f.id))
        s1 == set_halfedge_next(h2.s, halfedge_id, Some(h2.id))
        s2 == set_halfedge_face(s1, halfedge_id, Some(f.id))
        s3 == set_vertex_halfedge(s2, vertex_id1, Some(halfedge_id))
        s4 == set_vertex_halfedge(s3, vertex_id2, Some(h2.id))
        s5 == set_vertex_halfedge(s4, vertex_id3, Some(h3.id))
        s6 == set_face_halfedge(s5, f.id, halfedge_id)
    IN  [s |-> s6, id |-> f.id]

create_face_with_existing_halfedge(s, vertex_id1, vertex_id2, vertex_id3, halfedge_id, tag) ==
    LET f  == new_face(s, tag)
        h3 == new_halfedge(f.s, Some(vertex_id1), Some(halfedge_id), Some(f.id))
        h2 == new_halfedge(h3.s, Some(vertex_id3), Some(h3.id), Some(f.id))
        s1 == set_halfedge_next(h2.s, halfedge_id, Some(h2.id))
        s2 == set_halfedge_face(s1, halfedge_id, Some(f.id))
        s3 == set_vertex_halfedge(s2, vertex_id1, Some(halfedge_id))
        s4 == set_vertex_halfedge(s3, vertex_id2, Some(h2.id))
        s5 == set_vertex_halfedge(s4, vertex_id3, Some(h3.id))
        s6 == set_face_halfedge(s5, f.id, halfedge_id)
    IN  [s |-> s6, id |-> f.id]

remove_vertex(s, vertex_id) ==
    IF s.panicked THEN s
    ELSE [s EXCEPT !.vertices = remove(s.vertices, vertex_id)]

\* Mutant of remove_halfedge: the twin's twin is not cleared.
remove_halfedge_keeps_twin(s, halfedge_id) ==
    IF s.panicked THEN s
    ELSE IF get(s.halfedges, halfedge_id) = None
         THEN [s EXCEPT !.panicked = TRUE]
    ELSE [s EXCEPT !.halfedges = remove(s.halfedges, halfedge_id)]

\* Mutant of remove_halfedge: the removed slot is blanked as well.
remove_halfedge_blanks_slot(s, halfedge_id) ==
    IF s.panicked THEN s
    ELSE IF get(s.halfedges, halfedge_id) = None
         THEN [s EXCEPT !.panicked = TRUE]
    ELSE LET halfedge == unwrap(get(s.halfedges, halfedge_id))
             s1 == IF is_some(halfedge.twin)
                   THEN set_twin_field(s, unwrap(halfedge.twin), None)
                   ELSE s
         IN  IF s1.panicked THEN s1
             ELSE [s1 EXCEPT
                     !.halfedges = remove(
                         [s1.halfedges EXCEPT !.values[halfedge_id + 1] =
                              HalfEdge(None, None, None, None)],
                         halfedge_id)]

\* remove_halfedge: get(id).unwrap(); clear the twin's twin; free the id.
remove_halfedge(s, halfedge_id) ==
    IF s.panicked THEN s
    ELSE IF get(s.halfedges, halfedge_id) = None
         THEN [s EXCEPT !.panicked = TRUE]
    ELSE LET halfedge == unwrap(get(s.halfedges, halfedge_id))
             s1 == IF is_some(halfedge.twin)
                   THEN set_twin_field(s, unwrap(halfedge.twin), None)
                   ELSE s
         IN  IF s1.panicked THEN s1
             ELSE [s1 EXCEPT !.halfedges = remove(s1.halfedges, halfedge_id)]

\* Mutant of remove_face: the face's seed half-edge is removed with it.
remove_face_cascading(s, face_id) ==
    IF s.panicked THEN s
    ELSE LET o == get(s.faces, face_id)
             hs == IF is_some(o) /\ is_some(unwrap(o).halfedge)
                   THEN remove(s.halfedges, unwrap(unwrap(o).halfedge))
                   ELSE s.halfedges
         IN  [s EXCEPT !.faces = remove(s.faces, face_id), !.halfedges = hs]

remove_face(s, face_id) ==
    IF s.panicked THEN s
    ELSE [s EXCEPT !.faces = remove(s.faces, face_id)]

\* The getters that unwrap.
vertex_halfedge(s, vertex_id) == unwrap(get(s.vertices, vertex_id)).halfedge
position(s, vertex_id) == unwrap(get(s.vertices, vertex_id)).position
halfedge(s, halfedge_id) == get(s.halfedges, halfedge_id)
face_halfedge(s, face_id) == unwrap(get(s.faces, face_id)).halfedge
face_tag(s, face_id) == unwrap(get(s.faces, face_id)).tag

vertex_iterator(s) == iter(s.vertices)
halfedge_iterator(s) == iter(s.halfedges)
face_iterator(s) == iter(s.faces)

---------------------------------------------------------------------------
\* MeshBuilder (src/src/mesh_builder.rs).  An f32 is a token: a literal of
\* the source as a string, or, in cylinder(), the expression that computes
\* it as a tuple.  A Vec is a sequence.
MeshBuilder_new == [indices |-> None, positions |-> None]

with_indices(self, indices) == [self EXCEPT !.indices = Some(indices)]

\* Mutant of with_positions: an empty vector is not stored.
with_positions_unless_empty(self, positions) ==
    IF positions = <<>> THEN self ELSE [self EXCEPT !.positions = Some(positions)]

with_positions(self, positions) == [self EXCEPT !.positions = Some(positions)]

\* build: Err(NoPositionsSpecified) when positions is None; else the indices
\* given, or 0 .. positions.len()/3 - 1, and the positions go to Mesh::new.
build(self) ==
    IF self.positions = None
    THEN [ok |-> FALSE, error |-> "NoPositionsSpecified"]
    ELSE LET positions == unwrap(self.positions)
             indices == IF is_some(self.indices) THEN unwrap(self.indices)
                        ELSE [k \in 1 .. (Len(positions) \div 3) |-> k - 1]
         IN  [ok |-> TRUE, indices |-> indices, positions |-> positions]

cube_positions ==
    <<"1.0", "-1.0", "-1.0", "1.0", "-1.0", "1.0", "-1.0", "-1.0", "1.0",
      "-1.0", "-1.0", "-1.0", "1.0", "1.0", "-1.0", "1.0", "1.0", "1.0",
      "-1.0", "1.0", "1.0", "-1.0", "1.0", "-1.0">>
cube_indices ==
    <<0, 1, 2, 0, 2, 3, 4, 7, 6, 4, 6, 5, 0, 4, 5, 0, 5, 1, 1, 5, 6, 1, 6,
      2, 2, 6, 7, 2, 7, 3, 4, 0, 3, 4, 3, 7>>
cube(self) == with_indices(with_positions(self, cube_positions), cube_indices)

unconnected_cube_positions ==
    <<"1.0", "1.0", "-1.0", "-1.0", "1.0", "-1.0", "1.0", "1.0", "1.0",
      "-1.0", "1.0", "1.0", "1.0", "1.0", "1.0", "-1.0", "1.0", "-1.0",
      "-1.0", "-1.0", "-1.0", "1.0", "-1.0", "-1.0", "1.0", "-1.0", "1.0",
      "1.0", "-1.0", "1.0", "-1.0", "-1.0", "1.0", "-1.0", "-1.0", "-1.0",
      "1.0", "-1.0", "-1.0", "-1.0", "-1.0", "-1.0", "1.0", "1.0", "-1.0",
      "-1.0", "1.0", "-1.0", "1.0", "1.0", "-1.0", "-1.0", "-1.0", "-1.0",
      "-1.0", "-1.0", "1.0", "1.0", "-1.0", "1.0", "1.0", "1.0", "1.0",
      "1.0", "1.0", "1.0", "-1.0", "1.0", "1.0", "-1.0", "-1.0", "1.0",
      "1.0", "-1.0", "-1.0", "1.0", "1.0", "-1.0", "1.0", "1.0", "1.0",
      "1.0", "1.0", "1.0", "1.0", "-1.0", "1.0", "1.0", "-1.0", "-1.0",
      "-1.0", "1.0", "-1.0", "-1.0", "-1.0", "-1.0", "-1.0", "1.0", "1.0",
      "-1.0", "-1.0", "1.0", "-1.0", "1.0", "1.0", "-1.0", "-1.0", "-1.0">>
unconnected_cube(self) == with_positions(self, unconnected_cube_positions)

icosahedron_positions ==
    <<"-x", "0.0", "z", "x", "0.0", "z", "-x", "0.0", "-z", "x", "0.0",
      "-z", "0.0", "z", "x", "0.0", "z", "-x", "0.0", "-z", "x", "0.0",
      "-z", "-x", "z", "x", "0.0", "-z", "x", "0.0", "z", "-x", "0.0",
      "-z", "-x", "0.0">>
icosahedron_indices ==
    <<0, 1, 4, 0, 4, 9, 9, 4, 5, 4, 8, 5, 4, 1, 8, 8, 1, 10, 8, 10, 3, 5,
      8, 3, 5, 3, 2, 2, 3, 7, 7, 3, 10, 7, 10, 6, 7, 6, 11, 11, 6, 0, 0, 6,
      1, 6, 10, 1, 9, 11, 0, 9, 2, 11, 9, 5, 2, 7, 11, 2>>
icosahedron(self) ==
    with_indices(with_positions(self, icosahedron_positions),
                 icosahedron_indices)

\* cylinder: for i in 0 ..= x_subdivisions, for j in 0 .. angle_subdivisions
\* the three coordinates x, cos(angle), sin(angle); then for i in
\* 0 .. x_subdivisions, for j in 0 .. angle_subdivisions two triangles.
cylinder_positions(x_subdivisions, angle_subdivisions) ==
    [k \in 1 .. 3 * (x_subdivisions + 1) * angle_subdivisions |->
        LET i == (k - 1) \div (3 * angle_subdivisions)
            j == ((k - 1) % (3 * angle_subdivisions)) \div 3
            c == (k - 1) % 3
        IN  IF c = 0 THEN <<"x", i, x_subdivisions>>
            ELSE IF c = 1 THEN <<"cos", j, angle_subdivisions>>
            ELSE <<"sin", j, angle_subdivisions>>]

cylinder_indices(x_subdivisions, angle_subdivisions) ==
    [k \in 1 .. 6 * x_subdivisions * angle_subdivisions |->
        LET i == (k - 1) \div (6 * angle_subdivisions)
            j == ((k - 1) % (6 * angle_subdivisions)) \div 6
            c == (k - 1) % 6
            n == angle_subdivisions
        IN  IF c \in {0, 3} THEN (i * n) + j
            ELSE IF c = 1 THEN (i * n) + ((j + 1) % n)
            ELSE IF c \in {2, 4} THEN ((i + 1) * n) + ((j + 1) % n)
            ELSE ((i + 1) * n) + j]

cylinder(self, x_subdivisions, angle_subdivisions) ==
    with_indices(with_positions(self,
                     cylinder_positions(x_subdivisions, angle_subdivisions)),
                 cylinder_indices(x_subdivisions, angle_subdivisions))

---------------------------------------------------------------------------
\* Handles below the backing array's length, and those of them that are not
\* on the free list.
InRange(m) == 0 .. Len(m.values) - 1
Freed(m) == {m.free[k] : k \in 1 .. Len(m.free)}
Live(m) == InRange(m) \ Freed(m)
Opt(S) == {None} \cup {Some(x) : x \in S}
Range(q) == {q[k] : k \in 1 .. Len(q)}

\* Whether k more inserts keep the backing array within its cap.
Room(m, k, cap) ==
    Len(m.values) + (IF k > Len(m.free) THEN k - Len(m.free) ELSE 0) <= cap

\* The guards that bound a run: the call budget and the caps on the arrays.
Budget == calls < MaxCalls
VertexRoom == Room(vertices, 1, MaxVertices)
HalfedgeRoom(k) == Room(halfedges, k, MaxHalfedges)
FaceRoom == Room(faces, 1, MaxFaces)

Init ==
    /\ vertices = new.vertices
    /\ halfedges = new.halfedges
    /\ faces = new.faces
    /\ panicked = new.panicked
    /\ net = [vertices |-> 0, halfedges |-> 0, faces |-> 0]
    /\ alive = {}
    /\ last = [op |-> "new", args |-> <<>>, ret |-> None, old |-> None]
    /\ calls = 0
    /\ builder = MeshBuilder_new
    /\ result = None
    /\ supplied = FALSE
    /\ cursor = [it |-> None, yielded |-> <<>>, expected |-> {},
                 done |-> FALSE]

\* The store after a call, with the history of the call.
Commit(s, op, args, ret, dv, dh, df) ==
    /\ vertices' = s.vertices
    /\ halfedges' = s.halfedges
    /\ faces' = s.faces
    /\ panicked' = s.panicked
    /\ net' = [vertices |-> net.vertices + dv,
               halfedges |-> net.halfedges + dh,
               faces |-> net.faces + df]
    /\ alive' = IF op = "new_vertex" THEN alive \cup {unwrap(ret)}
                ELSE IF op = "remove_vertex" THEN alive \ {args[1]}
                ELSE alive
    /\ last' = [op |-> op, args |-> args, ret |-> ret,
                old |-> IF op = "new_halfedge" /\ is_some(ret)
                        THEN halfedge(Store, unwrap(ret)) ELSE None]
    /\ calls' = calls + 1
    /\ UNCHANGED <<builder, result, supplied, cursor>>

\* The calls, each on arguments of the given sets.
NewVertexOn(PS) ==
    /\ ~panicked
    /\ \E p \in PS :
         LET r == new_vertex(Store, p)
         IN  Commit(r.s, "new_vertex", <<p>>, Some(r.id), 1, 0, 0)

NewHalfedgeOn(VS, NS, FS) ==
    /\ ~panicked
    /\ \E v \in VS, n \in NS, f \in FS :
         LET r == new_halfedge(Store, v, n, f)
         IN  Commit(r.s, "new_halfedge", <<v, n, f>>, Some(r.id), 0, 1, 0)

CreateFaceCall(v1, v2, v3, tag) ==
    /\ ~panicked
    /\ LET r == create_face(Store, v1, v2, v3, tag)
       IN  Commit(r.s, "create_face", <<v1, v2, v3, tag>>,
                  IF r.s.panicked THEN None ELSE Some(r.id), 0, 3, 1)

CreateFaceOn(VS, TS) ==
    \E v1 \in VS, v2 \in VS, v3 \in VS, tag \in TS :
        CreateFaceCall(v1, v2, v3, tag)

CreateFaceWithExistingHalfedgeOn(VS, HS, TS) ==
    /\ ~panicked
    /\ \E v1 \in VS, v2 \in VS, v3 \in VS, he \in HS, tag \in TS :
         LET r == create_face_with_existing_halfedge(Store, v1, v2, v3, he, tag)
         IN  Commit(r.s, "create_face_with_existing_halfedge",
                    <<v1, v2, v3, he, tag>>,
                    IF r.s.panicked THEN None ELSE Some(r.id), 0, 2, 1)

RemoveVertexOn(VS) ==
    /\ ~panicked
    /\ \E v \in VS :
         Commit(remove_vertex(Store, v), "remove_vertex", <<v>>, None,
                -1, 0, 0)

RemoveHalfedgeOn(HS) ==
    /\ ~panicked
    /\ \E h \in HS :
         Commit(remove_halfedge(Store, h), "remove_halfedge", <<h>>, None,
                0, -1, 0)

RemoveFaceOn(FS) ==
    /\ ~panicked
    /\ \E f \in FS :
         Commit(remove_face(Store, f), "remove_face", <<f>>, None, 0, 0, -1)

SetHalfedgeTwinCall(id1, id2) ==
    /\ ~panicked
    /\ Commit(set_halfedge_twin(Store, id1, id2), "set_halfedge_twin",
              <<id1, id2>>, None, 0, 0, 0)

SetHalfedgeTwinOn(HS) ==
    \E id1 \in HS, id2 \in HS : SetHalfedgeTwinCall(id1, id2)

SetVertexHalfedgeOn(VS, OS) ==
    /\ ~panicked
    /\ \E id \in VS, val \in OS :
         Commit(set_vertex_halfedge(Store, id, val), "set_vertex_halfedge",
                <<id, val>>, None, 0, 0, 0)

---------------------------------------------------------------------------
\* Spec: a caller that builds faces, pairs and removes half-edges and removes
\* faces, passing handles in range and removing only live handles.
NewVertex == Budget /\ VertexRoom /\ NewVertexOn({"p"})
NewHalfedge ==
    Budget /\ HalfedgeRoom(1) /\ NewHalfedgeOn({None}, {None}, {None})
CreateFace ==
    Budget /\ FaceRoom /\ HalfedgeRoom(3)
           /\ CreateFaceOn(InRange(vertices), {"t"})
RemoveHalfedge == Budget /\ RemoveHalfedgeOn(Live(halfedges))
RemoveFace == Budget /\ RemoveFaceOn(Live(faces))
SetHalfedgeTwin == Budget /\ SetHalfedgeTwinOn(Live(halfedges))

Next ==
    \/ NewVertex
    \/ NewHalfedge
    \/ CreateFace
    \/ RemoveHalfedge
    \/ RemoveFace
    \/ SetHalfedgeTwin

Spec == Init /\ [][Next]_vars

---------------------------------------------------------------------------
\* Reading a half-edge record of a store; h is a handle in range.
HE(s, h) == s.halfedges.values[h + 1]

\* Face f of store s is a triangle he1 -> he2 -> he3 -> he1 over v1, v2, v3,
\* wired as create_face documents it, the vertex seeds included.
FaceWired(s, f, v1, v2, v3) ==
    /\ f \in InRange(s.faces)
    /\ {v1, v2, v3} \subseteq InRange(s.vertices)
    /\ \E he1, he2, he3 \in InRange(s.halfedges) :
         /\ he1 # he2 /\ he2 # he3 /\ he1 # he3
         /\ face_halfedge(s, f) = Some(he1)
         /\ HE(s, he1).vertex = Some(v2)
         /\ HE(s, he2).vertex = Some(v3)
         /\ HE(s, he3).vertex = Some(v1)
         /\ HE(s, he1).next = Some(he2)
         /\ HE(s, he2).next = Some(he3)
         /\ HE(s, he3).next = Some(he1)
         /\ \A h \in {he1, he2, he3} :
              HE(s, h).face = Some(f) /\ HE(s, h).twin = None
         /\ vertex_halfedge(s, v1) = Some(he1)
         /\ vertex_halfedge(s, v2) = Some(he2)
         /\ vertex_halfedge(s, v3) = Some(he3)

\* What a create_face step leaves, by the claim: one more face, three more
\* half-edges, and the returned face wired over the three arguments.
CreateFacePost ==
    /\ ~panicked'
    /\ num_faces(Store') = num_faces(Store) + 1
    /\ num_halfedges(Store') = num_halfedges(Store) + 3
    /\ FaceWired(Store', unwrap(last'.ret),
                 last'.args[1], last'.args[2], last'.args[3])

PairwiseDistinct(a, b, c) == a # b /\ b # c /\ a # c

\* C1 as stated: every create_face(v1, v2, v3, tag) on in-range vertex
\* handles adds one face and three half-edges and returns a face wired
\* he1(->v2) -> he2(->v3) -> he3(->v1) -> he1, with face = f, twin = none,
\* face_halfedge(f) = he1 and the seeds of v1, v2, v3 set to he1, he2, he3.
\* A repeated vertex handle refutes it: the later seed write wins.
C1_CreateFaceAnyVertices ==
    [][last'.op = "create_face" => CreateFacePost]_vars

\* C1 amended: the same for three pairwise distinct in-range vertex handles,
\* whether the face and half-edge slots are fresh or reused.
C1_CreateFaceDistinctVertices ==
    [][(/\ last'.op = "create_face"
        /\ PairwiseDistinct(last'.args[1], last'.args[2], last'.args[3]))
       => CreateFacePost]_vars

\* C1 witness: a create_face on distinct vertices has just returned a face
\* whose first half-edge took its slot from the free list (with no reuse the
\* three half-edges are the last three slots, he1 the lowest).
C1_Witness ==
    /\ last.op = "create_face"
    /\ PairwiseDistinct(last.args[1], last.args[2], last.args[3])
    /\ face_halfedge(Store, unwrap(last.ret)) # Some(Len(halfedges.values) - 3)
    /\ FaceWired(Store, unwrap(last.ret),
                 last.args[1], last.args[2], last.args[3])

---------------------------------------------------------------------------
\* Twin symmetry among the live half-edges of a store.
TwinSymmetry(s) ==
    \A h \in Live(s.halfedges) :
        is_some(HE(s, h).twin) =>
            /\ unwrap(HE(s, h).twin) \in InRange(s.halfedges)
            /\ HE(s, unwrap(HE(s, h).twin)).twin = Some(h)

\* No live half-edge is its own twin.
NoSelfTwin(s) == \A h \in Live(s.halfedges) : HE(s, h).twin # Some(h)

\* The step is a set_halfedge_twin(id1, id2) that overwrites a pairing: one
\* of the arguments had a twin that is not the other argument.
OverwritesPairing ==
    /\ last'.op = "set_halfedge_twin"
    /\ \/ HE(Store, last'.args[1]).twin \notin {None, Some(last'.args[2])}
       \/ HE(Store, last'.args[2]).twin \notin {None, Some(last'.args[1])}

\* C3 as stated: twin symmetry holds in every state reached by create_face,
\* new_halfedge, set_halfedge_twin and remove_halfedge calls on live
\* half-edge handles.  set_halfedge_twin(a, b); set_halfedge_twin(a, c)
\* refutes it: b keeps twin = a.
C3_TwinSymmetryAlways == TwinSymmetry(Store)

\* C3 amended: every call on live handles preserves twin symmetry, except a
\* set_halfedge_twin that overwrites an existing pairing.
C3_TwinSymmetryPreserved ==
    [][(TwinSymmetry(Store) /\ ~OverwritesPairing) => TwinSymmetry(Store')]_vars

\* C3 witness: two distinct unpaired live half-edges have just been paired,
\* and symmetry holds.
C3_Witness ==
    /\ last.op = "set_halfedge_twin"
    /\ last.args[1] # last.args[2]
    /\ HE(Store, last.args[1]).twin = Some(last.args[2])
    /\ HE(Store, last.args[2]).twin = Some(last.args[1])
    /\ \E h \in Freed(halfedges) : HE(Store, h).twin # None
    /\ TwinSymmetry(Store)

\* C4 as stated: in every reachable state, set_halfedge_twin with arbitrary
\* live arguments included, no live half-edge is its own twin.
\* set_halfedge_twin(h, h) refutes it.
C4_NoSelfTwinAlways == NoSelfTwin(Store)

\* C4 amended: every call preserves the absence of self-twins, except a
\* set_halfedge_twin whose two arguments are the same handle.
C4_NoSelfTwinPreserved ==
    [][(/\ NoSelfTwin(Store)
        /\ ~(last'.op = "set_halfedge_twin" /\ last'.args[1] = last'.args[2]))
       => NoSelfTwin(Store')]_vars

\* C4 witness: set_halfedge_twin on two distinct live handles has just paired
\* them and no live half-edge is its own twin.
C4_Witness ==
    /\ last.op = "set_halfedge_twin"
    /\ last.args[1] # last.args[2]
    /\ HE(Store, last.args[1]).twin = Some(last.args[2])
    /\ NoSelfTwin(Store)

\* C5: remove_halfedge(h) on a live half-edge h whose twin is Some(t) leaves
\* twin(t) = none and num_halfedges one less; and if twin symmetry held
\* among the live half-edges before the call, it holds after it.
C5_RemoveHalfedgeClearsTwin ==
    [][(/\ last'.op = "remove_halfedge"
        /\ last'.args[1] \in Live(halfedges)
        /\ is_some(HE(Store, last'.args[1]).twin))
       => (/\ ~panicked'
           /\ HE(Store', unwrap(HE(Store, last'.args[1]).twin)).twin = None
           /\ num_halfedges(Store') = num_halfedges(Store) - 1
           /\ ~len_overflows(halfedges')
           /\ (TwinSymmetry(Store) => TwinSymmetry(Store')))]_vars

\* C5 witness: a half-edge paired with another live half-edge t has just
\* been removed: its stale record still names t, and t has no twin.
C5_Witness ==
    /\ last.op = "remove_halfedge"
    /\ last.args[1] \in Freed(halfedges)
    /\ \E t \in Live(halfedges) :
         /\ HE(Store, last.args[1]).twin = Some(t)
         /\ HE(Store, t).twin = None

---------------------------------------------------------------------------
\* SpecBuild: construction only, from the empty store: new_vertex,
\* new_halfedge, create_face on in-range vertex handles, and
\* create_face_with_existing_halfedge on a half-edge whose face is none.
Unclaimed(m) == {h \in InRange(m) : m.values[h + 1].face = None}

BuildBudget == calls < MaxBuildCalls
BuildNewVertex == BuildBudget /\ VertexRoom /\ NewVertexOn({"p"})
BuildNewHalfedge ==
    BuildBudget /\ HalfedgeRoom(1)
                /\ NewHalfedgeOn(Opt(InRange(vertices)),
                                 Opt(InRange(halfedges)), Opt(InRange(faces)))
BuildCreateFace ==
    BuildBudget /\ FaceRoom /\ HalfedgeRoom(3)
                /\ CreateFaceOn(InRange(vertices), {"t"})
BuildCreateFaceWithExistingHalfedge ==
    BuildBudget /\ FaceRoom /\ HalfedgeRoom(2)
                /\ CreateFaceWithExistingHalfedgeOn(InRange(vertices),
                                                    Unclaimed(halfedges), {"t"})

NextBuild ==
    \/ BuildNewVertex
    \/ BuildNewHalfedge
    \/ BuildCreateFace
    \/ BuildCreateFaceWithExistingHalfedge

SpecBuild == Init /\ [][NextBuild]_vars

\* Following next three times from the seed of f returns to the seed, and
\* the three half-edges visited have face = f.
NextOf(s, o) ==
    IF is_some(o) /\ is_some(halfedge(s, unwrap(o)))
    THEN unwrap(halfedge(s, unwrap(o))).next ELSE None
FaceOf(s, o) ==
    IF is_some(o) /\ is_some(halfedge(s, unwrap(o)))
    THEN unwrap(halfedge(s, unwrap(o))).face ELSE None
Closed(s, f) ==
    LET h1 == face_halfedge(s, f)
        h2 == NextOf(s, h1)
        h3 == NextOf(s, h2)
    IN  /\ is_some(h1) /\ is_some(h2) /\ is_some(h3)
        /\ NextOf(s, h3) = h1
        /\ \A o \in {h1, h2, h3} : FaceOf(s, o) = Some(f)

\* C2: triangle closure is an invariant of construction: in every state
\* reached by new_vertex, new_halfedge, create_face and
\* create_face_with_existing_halfedge (on a half-edge whose face is none),
\* every live face is closed.
C2_TriangleClosure == \A f \in Live(faces) : Closed(Store, f)

\* C2 witness: two live faces, the second one just built around an existing
\* half-edge, both closed.
C2_Witness ==
    /\ last.op = "create_face_with_existing_halfedge"
    /\ Cardinality(Live(faces)) = 2
    /\ \A f \in Live(faces) : Closed(Store, f)

---------------------------------------------------------------------------
\* SpecArena: the vertex arena under any sequence of new_vertex,
\* remove_vertex and set_vertex_halfedge calls on handles in range; a handle
\* may be removed again while it is on the free list.
ArenaNewVertex == Budget /\ VertexRoom /\ NewVertexOn(Positions)
ArenaRemoveVertex == Budget /\ RemoveVertexOn(InRange(vertices))
ArenaSetVertexHalfedge ==
    Budget /\ SetVertexHalfedgeOn(InRange(vertices), {Some(0)})

NextArena ==
    \/ ArenaNewVertex
    \/ ArenaRemoveVertex
    \/ ArenaSetVertexHalfedge

SpecArena == Init /\ [][NextArena]_vars

\* C6: for each arena, len() equals the inserts performed minus the removes
\* performed, after any sequence of insert and remove calls.  A second remove
\* of the only handle refutes it: values.len() - free.len() overflows usize.
C6_CountInvariant ==
    /\ ~len_overflows(vertices) /\ len(vertices) = net.vertices
    /\ ~len_overflows(halfedges) /\ len(halfedges) = net.halfedges
    /\ ~len_overflows(faces) /\ len(faces) = net.faces

\* C7: LIFO handle reuse.  remove pushes the handle; with a non-empty free
\* list insert returns the handle pushed last, overwrites that slot with the
\* new record and leaves the array length unchanged; with an empty free list
\* it appends and returns the previous length.  And new_vertex(p) right after
\* remove_vertex(v) returns v with position(v) = p and no seed.
C7_LifoReuse ==
    [][/\ last'.op = "remove_vertex" =>
            /\ vertices'.free = Append(vertices.free, last'.args[1])
            /\ vertices'.values = vertices.values
       /\ last'.op = "new_vertex" =>
            IF vertices.free # <<>>
            THEN LET v == vertices.free[Len(vertices.free)]
                 IN  /\ last'.ret = Some(v)
                     /\ Len(vertices'.values) = Len(vertices.values)
                     /\ vertices'.values =
                          [vertices.values EXCEPT
                             ![v + 1] = Vertex(None, last'.args[1])]
                     /\ vertices'.free =
                          SubSeq(vertices.free, 1, Len(vertices.free) - 1)
            ELSE /\ last'.ret = Some(Len(vertices.values))
                 /\ vertices'.values =
                      Append(vertices.values, Vertex(None, last'.args[1]))
                 /\ vertices'.free = <<>>
       /\ (last.op = "remove_vertex" /\ last'.op = "new_vertex") =>
            /\ last'.ret = Some(last.args[1])
            /\ position(Store', last.args[1]) = last'.args[1]
            /\ vertex_halfedge(Store', last.args[1]) = None]_vars

\* C7 witness: after two removes, new_vertex("q") has just returned the
\* handle removed last; the handle removed first is still on the free list.
C7_Witness ==
    /\ last.op = "new_vertex"
    /\ Len(vertices.free) = 1
    /\ unwrap(last.ret) < Len(vertices.values) - 1
    /\ unwrap(last.ret) # vertices.free[1]
    /\ position(Store, unwrap(last.ret)) = "q"
    /\ \E v \in InRange(vertices) : position(Store, v) = "p"

\* C10: a second remove of a handle that is already on the free list does
\* not corrupt the free list: no index is on it twice, and len() equals the
\* number of handles iterate() yields.
NoDuplicates(q) == \A i, j \in 1 .. Len(q) : q[i] = q[j] => i = j
C10_DoubleRemoveHarmless ==
    /\ NoDuplicates(vertices.free)
    /\ ~len_overflows(vertices)
    /\ len(vertices) = Len(iter(vertices))

---------------------------------------------------------------------------
\* SpecVertices: new_vertex calls and remove_vertex calls on live handles.
VerticesNewVertex == Budget /\ VertexRoom /\ NewVertexOn(Positions)
VerticesRemoveVertex == Budget /\ RemoveVertexOn(Live(vertices))

NextVertices ==
    \/ VerticesNewVertex
    \/ VerticesRemoveVertex

SpecVertices == Init /\ [][NextVertices]_vars

\* C8: vertex_iterator() yields no handle that has been removed and not yet
\* reused (every handle it yields was returned by new_vertex and not removed
\* since), and it yields num_vertices() handles.
C8_IteratorLiveness ==
    /\ \A v \in Range(vertex_iterator(Store)) : v \in alive
    /\ ~len_overflows(vertices)
    /\ Len(vertex_iterator(Store)) = num_vertices(Store)

\* C8 witness: a vertex below a live one has just been removed; the iterator
\* skips it and yields the live one.
C8_Witness ==
    /\ last.op = "remove_vertex"
    /\ last.args[1] \notin Range(vertex_iterator(Store))
    /\ \E v \in Range(vertex_iterator(Store)) : v > last.args[1]

---------------------------------------------------------------------------
\* SpecStitch: the stitch scenario on a fresh store: four new_vertex calls
\* returning v0..v3, create_face(v0, v1, v2), create_face(v0, v2, v3), then
\* one set_halfedge_twin(a, b) on the two half-edges of the shared edge, the
\* caller finding them by walking from the face seeds.
StitchNewVertex ==
    /\ last.op \in {"new", "new_vertex"}
    /\ Len(vertices.values) < 4
    /\ NewVertexOn(Positions)

StitchFirstFace ==
    /\ last.op = "new_vertex"
    /\ Len(vertices.values) = 4
    /\ \E tag \in Tags : CreateFaceCall(0, 1, 2, tag)

StitchSecondFace ==
    /\ last.op = "create_face"
    /\ Len(faces.values) = 1
    /\ \E tag \in Tags : CreateFaceCall(0, 2, 3, tag)

\* The third half-edge of a face's cycle (the one back to the face's first
\* vertex), and the first.
ThirdHalfedge(s, f) == NextOf(s, NextOf(s, face_halfedge(s, f)))
FirstHalfedge(s, f) == face_halfedge(s, f)

StitchTwin ==
    /\ last.op = "create_face"
    /\ Len(faces.values) = 2
    /\ SetHalfedgeTwinCall(unwrap(ThirdHalfedge(Store, 0)),
                           unwrap(FirstHalfedge(Store, 1)))

NextStitch ==
    \/ StitchNewVertex
    \/ StitchFirstFace
    \/ StitchSecondFace
    \/ StitchTwin

SpecStitch == Init /\ [][NextStitch]_vars

\* C9: after the stitch scenario, num_faces = 2, num_halfedges = 6, a is the
\* half-edge v2 -> v0 of the first face and b the half-edge v0 -> v2 of the
\* second, twin(a) = Some(b), twin(b) = Some(a), and every other half-edge
\* has twin = none.
C9_Stitch ==
    last.op = "set_halfedge_twin" =>
        LET a == last.args[1]
            b == last.args[2]
        IN  /\ ~panicked
            /\ num_faces(Store) = 2
            /\ num_halfedges(Store) = 6
            /\ {a, b} \subseteq Live(halfedges) /\ a # b
            /\ HE(Store, a).face = Some(0) /\ HE(Store, a).vertex = Some(0)
            /\ \E h \in Live(halfedges) :
                 HE(Store, h).next = Some(a) /\ HE(Store, h).vertex = Some(2)
            /\ HE(Store, b).face = Some(1) /\ HE(Store, b).vertex = Some(2)
            /\ HE(Store, a).twin = Some(b)
            /\ HE(Store, b).twin = Some(a)
            /\ \A h \in Live(halfedges) \ {a, b} : HE(Store, h).twin = None

\* C9 witness: the scenario has run to its end.
C9_Witness ==
    /\ last.op = "set_halfedge_twin"
    /\ Len(vertices.values) = 4
    /\ Cardinality(Live(faces)) = 2
    /\ Cardinality(Live(halfedges)) = 6
    /\ \E h \in Live(halfedges) : is_some(HE(Store, h).twin)

---------------------------------------------------------------------------
\* SpecExisting: a caller that allocates vertices and bare half-edges, pairs
\* and removes live half-edges, and builds faces around an existing half-edge
\* given by any handle in range, one on the free list included.
ExistingNewVertex == BuildBudget /\ VertexRoom /\ NewVertexOn({"p"})
ExistingNewHalfedge ==
    BuildBudget /\ HalfedgeRoom(1)
                /\ NewHalfedgeOn(Opt(InRange(vertices)), {None}, {None})
ExistingSetHalfedgeTwin == BuildBudget /\ SetHalfedgeTwinOn(Live(halfedges))
ExistingRemoveHalfedge == BuildBudget /\ RemoveHalfedgeOn(Live(halfedges))
ExistingCreateFace ==
    BuildBudget /\ FaceRoom /\ HalfedgeRoom(2)
                /\ CreateFaceWithExistingHalfedgeOn(InRange(vertices),
                                                    InRange(halfedges), Tags)

NextExisting ==
    \/ ExistingNewVertex
    \/ ExistingNewHalfedge
    \/ ExistingSetHalfedgeTwin
    \/ ExistingRemoveHalfedge
    \/ ExistingCreateFace

SpecExisting == Init /\ [][NextExisting]_vars

\* What a create_face_with_existing_halfedge(v1, v2, v3, he, tag) step
\* leaves, by the claim.
ExistingPost ==
    LET f  == unwrap(last'.ret)
        v1 == last'.args[1]
        v3 == last'.args[3]
        he == last'.args[4]
        he2 == NextOf(Store', Some(he))
        he3 == NextOf(Store', he2)
    IN  /\ ~panicked'
        /\ num_faces(Store') = num_faces(Store) + 1
        /\ num_halfedges(Store') = num_halfedges(Store) + 2
        /\ face_halfedge(Store', f) = Some(he)
        /\ is_some(he2) /\ is_some(he3)
        /\ NextOf(Store', he3) = Some(he)
        /\ PairwiseDistinct(he, unwrap(he2), unwrap(he3))
        /\ {unwrap(he2), unwrap(he3)} \cap Live(halfedges) = {}
        /\ HE(Store', unwrap(he2)).vertex = Some(v3)
        /\ HE(Store', unwrap(he3)).vertex = Some(v1)
        /\ \A o \in {Some(he), he2, he3} : FaceOf(Store', o) = Some(f)
        /\ HE(Store', unwrap(he2)).twin = None
        /\ HE(Store', unwrap(he3)).twin = None
        /\ HE(Store', he).vertex = HE(Store, he).vertex
        /\ HE(Store', he).twin = HE(Store, he).twin

\* C11 as stated: create_face_with_existing_halfedge(v1, v2, v3, he, tag)
\* with in-range handles adds one face and exactly two half-edges and
\* returns f with cycle he -> he2 -> he3 -> he, he2.vertex = v3,
\* he3.vertex = v1, face = f on all three, twin = none on the two new ones,
\* face_halfedge(f) = he, and he's vertex and twin unchanged.  An in-range
\* he that is on top of the free list refutes it: its slot is handed out as
\* he3.
C11_ExistingInRange ==
    [][last'.op = "create_face_with_existing_halfedge" => ExistingPost]_vars

\* C11 amended: the same when he is a live half-edge handle (in range and
\* not on the free list).
C11_ExistingLive ==
    [][(/\ last'.op = "create_face_with_existing_halfedge"
        /\ last'.args[4] \in Live(halfedges))
       => ExistingPost]_vars

\* C11 witness: a face has just been built around a live half-edge that has
\* a vertex and another half-edge as twin; it still has both, and it is the
\* face's seed.
C11_Witness ==
    /\ last.op = "create_face_with_existing_halfedge"
    /\ last.args[4] \in Live(halfedges)
    /\ is_some(HE(Store, last.args[4]).twin)
    /\ HE(Store, last.args[4]).twin # Some(last.args[4])
    /\ is_some(HE(Store, last.args[4]).vertex)
    /\ face_halfedge(Store, unwrap(last.ret)) = Some(last.args[4])
    /\ HE(Store, last.args[4]).face = last.ret

---------------------------------------------------------------------------
\* SpecAtomic: new_vertex calls and create_face calls on any three vertex
\* handles below MaxVertices, whether or not that many vertices exist.  A
\* panic ends the run; the store is left as the panic found it.
Handles == 0 .. MaxVertices - 1

AtomicNewVertex == Budget /\ VertexRoom /\ NewVertexOn({"p"})
AtomicCreateFace ==
    Budget /\ FaceRoom /\ HalfedgeRoom(3) /\ CreateFaceOn(Handles, {"t"})
AtomicRemoveFace == Budget /\ RemoveFaceOn(Live(faces))

NextAtomic ==
    \/ AtomicNewVertex
    \/ AtomicCreateFace
    \/ AtomicRemoveFace

SpecAtomic == Init /\ [][NextAtomic]_vars

\* C12: create_face(v1, v2, v3, tag) is atomic: it either completes, with
\* one more face and three more half-edges wired into a closed triangle, or,
\* when a vertex handle is beyond the vertex array, fails and leaves the
\* three arenas as they were.  create_face(0, 0, 0, t) on the empty store
\* refutes it: the face and the three half-edges are allocated before
\* set_vertex_halfedge fails.
C12_CreateFaceAtomic ==
    [][last'.op = "create_face" =>
         IF panicked'
         THEN /\ vertices' = vertices
              /\ halfedges' = halfedges
              /\ faces' = faces
         ELSE /\ num_faces(Store') = num_faces(Store) + 1
              /\ num_halfedges(Store') = num_halfedges(Store) + 3
              /\ Closed(Store', unwrap(last'.ret))]_vars

---------------------------------------------------------------------------
\* The remaining setter calls, and the getter calls.  A getter leaves the
\* arenas alone; the ones that unwrap panic on a handle beyond the array,
\* and halfedge() returns None for it.
SetHalfedgeNextOn(HS, OS) ==
    /\ ~panicked
    /\ \E id \in HS, val \in OS :
         Commit(set_halfedge_next(Store, id, val), "set_halfedge_next",
                <<id, val>>, None, 0, 0, 0)

SetHalfedgeVertexOn(HS, VS) ==
    /\ ~panicked
    /\ \E id \in HS, val \in VS :
         Commit(set_halfedge_vertex(Store, id, val), "set_halfedge_vertex",
                <<id, val>>, None, 0, 0, 0)

SetHalfedgeFaceOn(HS, OS) ==
    /\ ~panicked
    /\ \E id \in HS, val \in OS :
         Commit(set_halfedge_face(Store, id, val), "set_halfedge_face",
                <<id, val>>, None, 0, 0, 0)

SetFaceHalfedgeOn(FS, HS) ==
    /\ ~panicked
    /\ \E id \in FS, val \in HS :
         Commit(set_face_halfedge(Store, id, val), "set_face_halfedge",
                <<id, val>>, None, 0, 0, 0)

VertexHalfedgeOn(VS) ==
    /\ ~panicked
    /\ \E vertex_id \in VS :
         LET o == get(vertices, vertex_id)
         IN  Commit([Store EXCEPT !.panicked = (o = None)], "vertex_halfedge",
                    <<vertex_id>>,
                    IF o = None THEN None ELSE Some(unwrap(o).halfedge),
                    0, 0, 0)

PositionOn(VS) ==
    /\ ~panicked
    /\ \E vertex_id \in VS :
         LET o == get(vertices, vertex_id)
         IN  Commit([Store EXCEPT !.panicked = (o = None)], "position",
                    <<vertex_id>>,
                    IF o = None THEN None ELSE Some(unwrap(o).position),
                    0, 0, 0)

HalfedgeOn(HS) ==
    /\ ~panicked
    /\ \E halfedge_id \in HS :
         Commit(Store, "halfedge", <<halfedge_id>>,
                Some(halfedge(Store, halfedge_id)), 0, 0, 0)

FaceHalfedgeOn(FS) ==
    /\ ~panicked
    /\ \E face_id \in FS :
         LET o == get(faces, face_id)
         IN  Commit([Store EXCEPT !.panicked = (o = None)], "face_halfedge",
                    <<face_id>>,
                    IF o = None THEN None ELSE Some(unwrap(o).halfedge),
                    0, 0, 0)

FaceTagOn(FS) ==
    /\ ~panicked
    /\ \E face_id \in FS :
         LET o == get(faces, face_id)
         IN  Commit([Store EXCEPT !.panicked = (o = None)], "face_tag",
                    <<face_id>>,
                    IF o = None THEN None ELSE Some(unwrap(o).tag),
                    0, 0, 0)

\* SpecLookup: a short run of constructor calls followed by setter and
\* getter calls on any handle up to the first one beyond the array.
UpTo(m) == 0 .. Len(m.values)
LookupBudget == calls < MaxLookupCalls

LookupNewVertex == LookupBudget /\ VertexRoom /\ NewVertexOn({"p"})
LookupNewHalfedge ==
    LookupBudget /\ HalfedgeRoom(1) /\ NewHalfedgeOn({None}, {None}, {None})
LookupCreateFace ==
    LookupBudget /\ FaceRoom /\ HalfedgeRoom(3)
                 /\ CreateFaceOn(InRange(vertices), {"t"})
LookupSetVertexHalfedge ==
    LookupBudget /\ SetVertexHalfedgeOn(UpTo(vertices), {Some(0)})
LookupSetHalfedgeNext ==
    LookupBudget /\ SetHalfedgeNextOn(UpTo(halfedges), {Some(0)})
LookupSetHalfedgeTwin == LookupBudget /\ SetHalfedgeTwinOn(UpTo(halfedges))
LookupSetHalfedgeVertex ==
    LookupBudget /\ SetHalfedgeVertexOn(UpTo(halfedges), {0})
LookupSetHalfedgeFace ==
    LookupBudget /\ SetHalfedgeFaceOn(UpTo(halfedges), {Some(0)})
LookupSetFaceHalfedge ==
    LookupBudget /\ SetFaceHalfedgeOn(UpTo(faces), {0})
LookupPosition == LookupBudget /\ PositionOn(UpTo(vertices))
LookupVertexHalfedge == LookupBudget /\ VertexHalfedgeOn(UpTo(vertices))
LookupHalfedge == LookupBudget /\ HalfedgeOn(UpTo(halfedges))
LookupFaceHalfedge == LookupBudget /\ FaceHalfedgeOn(UpTo(faces))
LookupFaceTag == LookupBudget /\ FaceTagOn(UpTo(faces))

NextLookup ==
    \/ LookupNewVertex
    \/ LookupNewHalfedge
    \/ LookupCreateFace
    \/ LookupSetVertexHalfedge
    \/ LookupSetHalfedgeNext
    \/ LookupSetHalfedgeTwin
    \/ LookupSetHalfedgeVertex
    \/ LookupSetHalfedgeFace
    \/ LookupSetFaceHalfedge
    \/ LookupPosition
    \/ LookupVertexHalfedge
    \/ LookupHalfedge
    \/ LookupFaceHalfedge
    \/ LookupFaceTag

SpecLookup == Init /\ [][NextLookup]_vars

\* The setters and getters of the claim, and whether the step is one of them
\* on a handle that is not below its backing array's length.
Accessors ==
    {"set_vertex_halfedge", "set_halfedge_next", "set_halfedge_twin",
     "set_halfedge_vertex", "set_halfedge_face", "set_face_halfedge",
     "position", "vertex_halfedge", "halfedge", "face_halfedge", "face_tag"}
OutOfRange ==
    LET op == last'.op
        a  == last'.args
    IN  \/ /\ op \in {"set_vertex_halfedge", "position", "vertex_halfedge"}
           /\ a[1] \notin InRange(vertices)
        \/ /\ op \in {"set_halfedge_next", "set_halfedge_vertex",
                       "set_halfedge_face", "halfedge"}
           /\ a[1] \notin InRange(halfedges)
        \/ /\ op = "set_halfedge_twin"
           /\ ~({a[1], a[2]} \subseteq InRange(halfedges))
        \/ /\ op \in {"set_face_halfedge", "face_halfedge", "face_tag"}
           /\ a[1] \notin InRange(faces)

\* C13 as stated: every setter and getter of the list, halfedge included,
\* fails (panics) when given a handle that is not below the backing
\* array's length.  halfedge(h) refutes it: it returns None.
C13_AllAccessorsFail == [][OutOfRange => panicked']_vars

\* C13 amended: on such a handle every setter and getter of the list other
\* than halfedge panics; halfedge returns None, does not panic and leaves
\* the store unchanged; and no accessor panics on a handle in range.
C13_AccessorsFailButHalfedge ==
    [][/\ OutOfRange =>
            IF last'.op = "halfedge"
            THEN /\ ~panicked'
                 /\ last'.ret = Some(None)
                 /\ Store' = Store
            ELSE panicked'
       /\ (last'.op \in Accessors /\ ~OutOfRange) => ~panicked']_vars

\* C13 witness: a setter has just panicked on the first face handle beyond
\* a non-empty face array.
C13_Witness ==
    /\ panicked
    /\ last.op = "set_face_halfedge"
    /\ Len(faces.values) > 0
    /\ last.args[1] = Len(faces.values)

---------------------------------------------------------------------------
\* SpecBuilder: MeshBuilder::new(), then any chain of builder calls, then
\* build(), which consumes the builder.
IndexVecs == {<<>>, <<0, 1, 2>>}
PositionVecs == {<<>>, <<"0.0", "0.0", "0.0">>,
                 <<"0.0", "0.0", "0.0", "1.0", "0.0", "0.0", "0.0", "1.0", "0.0">>}
Subdivisions == 0 .. MaxSubdivisions

\* A builder call: the builder it returns, and whether it passes positions.
BuilderCommit(b, op, args, positions) ==
    /\ builder' = b
    /\ supplied' = (supplied \/ positions)
    /\ last' = [op |-> op, args |-> args, ret |-> None, old |-> None]
    /\ calls' = calls + 1
    /\ UNCHANGED <<vertices, halfedges, faces, panicked, net, alive, result,
                   cursor>>

\* The builder is there until build() consumes it.
BuilderBudget == result = None /\ calls < MaxBuilderCalls

WithIndices ==
    /\ BuilderBudget
    /\ \E indices \in IndexVecs :
         BuilderCommit(with_indices(builder, indices), "with_indices",
                       <<indices>>, FALSE)
WithPositions ==
    /\ BuilderBudget
    /\ \E positions \in PositionVecs :
         BuilderCommit(with_positions(builder, positions), "with_positions",
                       <<positions>>, TRUE)
Cube == BuilderBudget /\ BuilderCommit(cube(builder), "cube", <<>>, TRUE)
UnconnectedCube ==
    /\ BuilderBudget
    /\ BuilderCommit(unconnected_cube(builder), "unconnected_cube", <<>>, TRUE)
Icosahedron ==
    /\ BuilderBudget
    /\ BuilderCommit(icosahedron(builder), "icosahedron", <<>>, TRUE)
Cylinder ==
    /\ BuilderBudget
    /\ \E x_subdivisions \in Subdivisions, angle_subdivisions \in Subdivisions :
         BuilderCommit(cylinder(builder, x_subdivisions, angle_subdivisions),
                       "cylinder", <<x_subdivisions, angle_subdivisions>>, TRUE)
Build ==
    /\ result = None
    /\ result' = Some(build(builder))
    /\ last' = [op |-> "build", args |-> <<>>, ret |-> None, old |-> None]
    /\ calls' = calls + 1
    /\ UNCHANGED <<vertices, halfedges, faces, panicked, net, alive,
                   builder, supplied, cursor>>

NextBuilder ==
    \/ WithIndices
    \/ WithPositions
    \/ Cube
    \/ UnconnectedCube
    \/ Icosahedron
    \/ Cylinder
    \/ Build

SpecBuilder == Init /\ [][NextBuilder]_vars

\* C14: build() returns the NoPositionsSpecified error exactly when no
\* preceding builder call (with_positions, cube, unconnected_cube,
\* icosahedron, cylinder) supplied positions, whatever the indices and the
\* order of the calls; when positions were supplied it returns a mesh built
\* from them.
C14_BuildError ==
    is_some(result) =>
        IF supplied
        THEN unwrap(result).ok
        ELSE /\ ~unwrap(result).ok
             /\ unwrap(result).error = "NoPositionsSpecified"

\* C14 witness: build() has returned the error for a builder that was given
\* indices but no positions.
C14_Witness ==
    /\ is_some(result)
    /\ ~unwrap(result).ok
    /\ is_some(builder.indices)
    /\ ~supplied

---------------------------------------------------------------------------
\* C15: remove(handle) changes only the free list: the backing array, the
\* removed slot included, is as before, so get(handle) on a freed handle
\* still returns the record it returned before the removal; and get fails
\* exactly when the index is not below the array's length, whether or not
\* the index is on the free list.
C15_RemoveKeepsSlot ==
    [][/\ last'.op = "remove_vertex" =>
            /\ vertices'.values = vertices.values
            /\ Len(vertices'.free) = Len(vertices.free) + 1
            /\ is_some(get(vertices', last'.args[1]))
            /\ get(vertices', last'.args[1]) = get(vertices, last'.args[1])
       /\ \A id \in 0 .. MaxVertices :
            (get(vertices', id) = None) <=> (id >= Len(vertices'.values))]_vars

\* C15 witness: a vertex with a seed has just been removed; it is on the
\* free list and get still returns its record, seed and position.
C15_Witness ==
    /\ last.op = "remove_vertex"
    /\ last.args[1] \in Freed(vertices)
    /\ get(vertices, last.args[1]) = Some(Vertex(Some(0), "q"))

---------------------------------------------------------------------------
\* SpecRemoval: a caller that builds faces over its vertices, pairs live
\* half-edges, and removes live vertices, half-edges and faces in any order.
RemovalNewVertex == BuildBudget /\ VertexRoom /\ NewVertexOn({"p"})
RemovalCreateFace ==
    BuildBudget /\ FaceRoom /\ HalfedgeRoom(3)
                /\ CreateFaceOn(InRange(vertices), {"t"})
RemovalSetHalfedgeTwin == BuildBudget /\ SetHalfedgeTwinOn(Live(halfedges))
RemovalRemoveVertex == BuildBudget /\ RemoveVertexOn(Live(vertices))
RemovalRemoveHalfedge == BuildBudget /\ RemoveHalfedgeOn(Live(halfedges))
RemovalRemoveFace == BuildBudget /\ RemoveFaceOn(Live(faces))

NextRemoval ==
    \/ RemovalNewVertex
    \/ RemovalCreateFace
    \/ RemovalSetHalfedgeTwin
    \/ RemovalRemoveVertex
    \/ RemovalRemoveHalfedge
    \/ RemovalRemoveFace

SpecRemoval == Init /\ [][NextRemoval]_vars

\* C16: face and vertex removal do not cascade.  remove_face(f) makes
\* num_faces one less and leaves every half-edge record (the three with
\* face = f included), every vertex record, num_halfedges and num_vertices
\* as they were; remove_vertex(v) changes nothing in the half-edge and face
\* arenas.
C16_RemovalDoesNotCascade ==
    [][/\ last'.op = "remove_face" =>
            /\ ~panicked'
            /\ ~len_overflows(faces')
            /\ num_faces(Store') = num_faces(Store) - 1
            /\ halfedges' = halfedges
            /\ vertices' = vertices
            /\ num_halfedges(Store') = num_halfedges(Store)
            /\ num_vertices(Store') = num_vertices(Store)
       /\ last'.op = "remove_vertex" =>
            /\ ~panicked'
            /\ halfedges' = halfedges
            /\ faces' = faces]_vars

\* C16 witness: a face has just been removed; its three half-edges are live
\* and still have face = f, and a vertex seed still names one of them.
C16_Witness ==
    /\ last.op = "remove_face"
    /\ last.args[1] \in Freed(faces)
    /\ Cardinality({h \in Live(halfedges) :
                       HE(Store, h).face = Some(last.args[1])}) = 3
    /\ \E v \in Live(vertices) :
         /\ is_some(vertex_halfedge(Store, v))
         /\ HE(Store, unwrap(vertex_halfedge(Store, v))).face
              = Some(last.args[1])

---------------------------------------------------------------------------
\* SpecIterate: the vertex arena under new_vertex and remove_vertex calls on
\* handles in range (repeated removes included), with vertex_iterator()
\* called at any moment and its items taken one at a time between the
\* calls that follow.
IterateNewVertex == Budget /\ VertexRoom /\ NewVertexOn({"p"})
IterateRemoveVertex == Budget /\ RemoveVertexOn(InRange(vertices))

VertexIterator ==
    /\ Budget
    /\ ~panicked
    /\ cursor' = [it |-> Some(iter_begin(vertices)), yielded |-> <<>>,
                  expected |-> Live(vertices), done |-> FALSE]
    /\ last' = [op |-> "vertex_iterator", args |-> <<>>, ret |-> None,
                old |-> None]
    /\ calls' = calls + 1
    /\ UNCHANGED <<vertices, halfedges, faces, panicked, net, alive,
                   builder, result, supplied>>

IteratorNext ==
    /\ is_some(cursor.it)
    /\ ~cursor.done
    /\ LET r == iterator_next(unwrap(cursor.it))
       IN  /\ cursor' = [cursor EXCEPT
                            !.it = Some(r.it),
                            !.yielded = cursor.yielded \o r.item,
                            !.done = (r.item = None)]
           /\ last' = [op |-> "next", args |-> <<>>, ret |-> r.item,
                       old |-> None]
    /\ UNCHANGED <<vertices, halfedges, faces, panicked, net, alive, calls,
                   builder, result, supplied>>

NextIterate ==
    \/ IterateNewVertex
    \/ IterateRemoveVertex
    \/ VertexIterator
    \/ IteratorNext

SpecIterate == Init /\ [][NextIterate]_vars

Ascending(q) == \A i, j \in 1 .. Len(q) : i < j => q[i] < q[j]

\* C18: in every arena state iterate() yields exactly the handles in
\* [0, values.len()) that are not on the free list, each once and in
\* strictly ascending order; and what an iterator yields is fixed by the
\* state at the call: whatever inserts and removes follow, the items taken
\* from it are ascending handles that were live at the call, and all of
\* them once it is exhausted.
C18_IterateSnapshot ==
    /\ Range(iter(vertices)) = Live(vertices)
    /\ Ascending(iter(vertices))
    /\ Range(cursor.yielded) \subseteq cursor.expected
    /\ Ascending(cursor.yielded)
    /\ \A v \in cursor.expected \ Range(cursor.yielded) :
         \A k \in 1 .. Len(cursor.yielded) : cursor.yielded[k] < v
    /\ cursor.done => Range(cursor.yielded) = cursor.expected

\* C18 witness: an iterator has been exhausted after the arena changed
\* under it: it yielded a handle that has been removed since the call, and
\* not a handle that has become live since.
C18_Witness ==
    /\ cursor.done
    /\ \E v \in Range(cursor.yielded) : v \in Freed(vertices)
    /\ \E v \in Live(vertices) : v \notin Range(cursor.yielded)

---------------------------------------------------------------------------
\* C19: no aliasing of live handles.  When every remove is of a handle that
\* is live at that moment, insert never returns a handle that is live, every
\* free-list entry is below the array's length and on the list once, and
\* insert never fails or indexes out of bounds.
C19_NoAliasing ==
    [][/\ last'.op = "new_vertex" =>
            /\ ~panicked'
            /\ is_some(last'.ret)
            /\ unwrap(last'.ret) \notin alive
            /\ unwrap(last'.ret) \notin Live(vertices)
            /\ unwrap(last'.ret) \in InRange(vertices')
       /\ NoDuplicates(vertices'.free)
       /\ Range(vertices'.free) \subseteq InRange(vertices')
       /\ alive' = Live(vertices')]_vars

\* C19 witness: new_vertex has just reused a freed slot while another
\* vertex is live and another slot is still free.
C19_Witness ==
    /\ last.op = "new_vertex"
    /\ unwrap(last.ret) < Len(vertices.values) - 1
    /\ vertices.free # <<>>
    /\ Cardinality(alive) >= 2

---------------------------------------------------------------------------
\* SpecReuse: a caller that allocates half-edges, with any vertex and next
\* in range or absent, and faces, pairs live half-edges and removes live
\* half-edges, so that slots are freed and handed out again.
ReuseNewVertex == BuildBudget /\ VertexRoom /\ NewVertexOn({"p"})
ReuseNewHalfedge ==
    BuildBudget /\ HalfedgeRoom(1)
                /\ NewHalfedgeOn(Opt(InRange(vertices)),
                                 Opt(InRange(halfedges)),
                                 {None})
ReuseCreateFace ==
    BuildBudget /\ FaceRoom /\ HalfedgeRoom(3)
                /\ CreateFaceOn(InRange(vertices), {"t"})
ReuseSetHalfedgeTwin == BuildBudget /\ SetHalfedgeTwinOn(Live(halfedges))
ReuseRemoveHalfedge == BuildBudget /\ RemoveHalfedgeOn(Live(halfedges))

NextReuse ==
    \/ ReuseNewVertex
    \/ ReuseNewHalfedge
    \/ ReuseCreateFace
    \/ ReuseSetHalfedgeTwin
    \/ ReuseRemoveHalfedge

SpecReuse == Init /\ [][NextReuse]_vars

\* C20: no stale data leaks through slot reuse.  new_halfedge(vertex, next,
\* face) returns a handle whose record is exactly {vertex, twin: none, next,
\* face}, whatever the slot held; remove_halfedge(h) in a state with twin
\* symmetry leaves no live half-edge with twin = Some(h); and no later call
\* gives a live half-edge the twin Some(h) except a set_halfedge_twin on the
\* two of them, so an allocation that reuses h finds and leaves none.
C20_NoStaleTwin ==
    [][/\ last'.op = "new_halfedge" =>
            /\ ~panicked'
            /\ unwrap(last'.ret) \in Live(halfedges')
            /\ unwrap(last'.ret) \notin Live(halfedges)
            /\ HE(Store', unwrap(last'.ret)) =
                 HalfEdge(last'.args[1], None, last'.args[2], last'.args[3])
       /\ (last'.op = "remove_halfedge" /\ TwinSymmetry(Store)) =>
            \A k \in Live(halfedges') :
                HE(Store', k).twin # Some(last'.args[1])
       /\ \A k \in Live(halfedges') :
            is_some(HE(Store', k).twin) =>
                \/ k \in Live(halfedges) /\ HE(Store, k).twin = HE(Store', k).twin
                \/ /\ last'.op = "set_halfedge_twin"
                   /\ {k, unwrap(HE(Store', k).twin)}
                        = {last'.args[1], last'.args[2]}]_vars

\* C20 witness: new_halfedge has just reused the slot of a removed half-edge
\* that had a twin; the new record has no twin, the former twin is live and
\* has none either, and no live half-edge names the reused handle as twin.
C20_Witness ==
    /\ last.op = "new_halfedge"
    /\ is_some(last.old)
    /\ is_some(unwrap(last.old).twin)
    /\ unwrap(unwrap(last.old).twin) \in Live(halfedges) \ {unwrap(last.ret)}
    /\ HE(Store, unwrap(unwrap(last.old).twin)).twin = None
    /\ HE(Store, unwrap(last.ret)).twin = None
    /\ is_some(HE(Store, unwrap(last.ret)).next)
    /\ \A k \in Live(halfedges) : HE(Store, k).twin # last.ret

=============================================================================
